---- MODULE Spec2Model ----
(***************************************************************************)
(* Book QR Generator (src/app.py): the session object BookQRGenerator, its *)
(* event handlers and the pure helpers they call.  Strings are sequences   *)
(* of one-character strings, so that strip, startswith, the page-range     *)
(* regular expression and len() are computed, not assumed.  The text of an *)
(* entry widget is what the user typed: it is an input of the handler that *)
(* reads it.                                                               *)
(***************************************************************************)
EXTENDS Integers, Sequences, FiniteSets, TLC

VARIABLES
    pdf_path,           \* self.pdf_path: path of the loaded PDF, or None
    pdf_reader,         \* self.pdf_reader: the opened document, or None
    total_pages,        \* self.total_pages
    qr_image,           \* self.qr_image: PDF-workflow artifact, or None
    qr_photo,           \* self.qr_photo: its on-canvas rendering, or None
    extracted_text,     \* self.extracted_text
    google_drive_link,  \* self.google_drive_link
    url_qr_image,       \* self.url_qr_image: URL-workflow artifact, or None
    url_qr_photo,       \* self.url_qr_photo
    op,                 \* the handler that ran last
    dialogs,            \* messagebox calls of the last handler, in order
    pages_read,         \* page numbers whose text the last handler read
    encoded,            \* what the last handler handed to the QR encoder
    written,            \* what the last handler wrote to the file system
    call_arg,           \* argument of a direct call of a pure helper
    call_result         \* return value of that call, or None

vars == <<pdf_path, pdf_reader, total_pages, qr_image, qr_photo,
          extracted_text, google_drive_link, url_qr_image, url_qr_photo,
          op, dialogs, pages_read, encoded, written, call_arg, call_result>>

pdf_state == <<pdf_path, pdf_reader, total_pages, qr_image, qr_photo,
               extracted_text, google_drive_link>>

url_state == <<url_qr_image, url_qr_photo>>

None == <<>>           \* Python None: an optional value is None or Some(x)
Some(x) == <<x>>

-----------------------------------------------------------------------------
(* Bounds of the model *)

MaxPages == 3       \* pages of the largest short document
MaxLen == 4         \* longest string explored by SpecParse and SpecUrl

-----------------------------------------------------------------------------
(* Python string primitives *)

Whitespace == {" ", "\t", "\n"}

Digits == {"0", "1", "2", "3", "4", "5", "6", "7", "8", "9"}

IsSpace(c) == c \in Whitespace

DigitVal(c) ==
    CASE c = "0" -> 0 [] c = "1" -> 1 [] c = "2" -> 2 [] c = "3" -> 3
      [] c = "4" -> 4 [] c = "5" -> 5 [] c = "6" -> 6 [] c = "7" -> 7
      [] c = "8" -> 8 [] c = "9" -> 9

\* str.strip(): drop the leading and the trailing whitespace
strip(s) ==
    IF \A i \in 1..Len(s) : IsSpace(s[i]) THEN <<>>
    ELSE LET lo == CHOOSE i \in 1..Len(s) :
                      ~IsSpace(s[i]) /\ \A j \in 1..(i-1) : IsSpace(s[j])
             hi == CHOOSE i \in 1..Len(s) :
                      ~IsSpace(s[i]) /\ \A j \in (i+1)..Len(s) : IsSpace(s[j])
         IN  SubSeq(s, lo, hi)

\* str.isdigit(): non-empty and every character a digit
isdigit(s) == Len(s) > 0 /\ \A i \in 1..Len(s) : s[i] \in Digits

RECURSIVE int(_)
\* int(s) for a string of decimal digits
int(s) ==
    IF Len(s) = 0 THEN 0
    ELSE int(SubSeq(s, 1, Len(s) - 1)) * 10 + DigitVal(s[Len(s)])

\* s.startswith(p)
startswith(s, p) == Len(s) >= Len(p) /\ SubSeq(s, 1, Len(p)) = p

\* p in s (substring test)
contains(s, p) ==
    \E i \in 1..(Len(s) - Len(p) + 1) :
        \A k \in 1..Len(p) : s[i + k - 1] = p[k]

\* list(range(a, b)) with the last element dropped
range_exclusive(a, b) == SubSeq([i \in 1..(b - a) |-> a + i - 1], 1, b - a)

\* list(range(a, b + 1))
range(a, b) == SubSeq([i \in 1..(b - a + 1) |-> a + i - 1], 1, b - a + 1)

-----------------------------------------------------------------------------
(* parse_page_input *)

ErrRangeFormat == "Invalid page range format. Use format like '10-15'"
ErrRangeBelow1 == "Page numbers must be greater than 0"
ErrStartGtEnd  == "Start page must be less than or equal to end page"
ErrEndExceeds  == "End page exceeds total pages"
ErrPageFormat  == "Invalid page number. Enter a number or range like '10-15'"
ErrPageBelow1  == "Page number must be greater than 0"
ErrPageExceeds == "Page exceeds total pages"

Ok(pages) == [ok |-> TRUE, pages |-> pages, error |-> ""]
ValueError(msg) == [ok |-> FALSE, pages |-> <<>>, error |-> msg]

\* the positions i at which re.match(r'^(\d+)\s*-\s*(\d+)$', s) can put the
\* dash: digits, optional whitespace, "-", optional whitespace, digits
DashSplits(s) ==
    {i \in 1..Len(s) :
        /\ s[i] = "-"
        /\ \E a \in 1..(i-1) :
              /\ \A j \in 1..a : s[j] \in Digits
              /\ \A j \in (a+1)..(i-1) : IsSpace(s[j])
        /\ \E b \in (i+1)..Len(s) :
              /\ \A j \in (i+1)..(b-1) : IsSpace(s[j])
              /\ \A j \in b..Len(s) : s[j] \in Digits}

\* match.group(1), match.group(2) for the dash at position i
Group1(s, i) == strip(SubSeq(s, 1, i - 1))
Group2(s, i) == strip(SubSeq(s, i + 1, Len(s)))

parse_page_input(raw, total) ==
    LET page_input == strip(raw) IN
    IF contains(page_input, <<"-">>)
    THEN IF DashSplits(page_input) = {}
         THEN ValueError(ErrRangeFormat)
         ELSE LET i == CHOOSE k \in DashSplits(page_input) : TRUE
                  start_page == int(Group1(page_input, i))
                  end_page == int(Group2(page_input, i))
              IN  IF start_page < 1 THEN ValueError(ErrRangeBelow1)
                  ELSE IF start_page > end_page THEN ValueError(ErrStartGtEnd)
                  ELSE IF end_page > total THEN ValueError(ErrEndExceeds)
                  ELSE Ok(range(start_page, end_page))
    ELSE IF ~isdigit(page_input)
         THEN ValueError(ErrPageFormat)
         ELSE LET page_num == int(page_input)
              IN  IF page_num < 1 THEN ValueError(ErrPageBelow1)
                  ELSE IF page_num > total THEN ValueError(ErrPageExceeds)
                  ELSE Ok(<<page_num>>)

-----------------------------------------------------------------------------
(* The documents on disk and the PDF reader *)

SizeLimit == 2000   \* the soft limit on the payload length

RECURSIVE Repeat(_, _)
\* the string c * n
Repeat(c, n) ==
    IF n = 0 THEN <<>>
    ELSE IF n = 1 THEN <<c>>
    ELSE Repeat(c, n \div 2) \o Repeat(c, n - n \div 2)

\* page.extract_text() of page i of book.pdf: text with mixed whitespace, an
\* image-only page without text, text with outer whitespace, a blank page
BookPage(i) ==
    CASE i % 4 = 1 -> <<"a", "\n", " ", "b">>
      [] i % 4 = 2 -> <<>>
      [] i % 4 = 3 -> <<"\t", "c", " ">>
      [] i % 4 = 0 -> <<" ", "\n">>

Book(n) == [pages |-> [i \in 1..n |-> BookPage(i)]]

BookPdf == Book(MaxPages)

\* a document whose first page alone fills the soft limit exactly
LongPdf == [pages |-> <<Repeat("x", SizeLimit), <<"y">>>>]

PdfPaths == {"book.pdf", "corrupt.pdf", "nopages.pdf"}

LongPdfPaths == {"long.pdf"}

NoPages == [pages |-> <<>>]

\* PdfReader(file_path) and len(reader.pages): corrupt.pdf fails at open
\* time, nopages.pdf opens and fails when its page count is obtained
PdfReader(file_path) ==
    CASE file_path = "book.pdf" ->
             [open_raises |-> FALSE, len_raises |-> FALSE, reader |-> BookPdf]
      [] file_path = "long.pdf" ->
             [open_raises |-> FALSE, len_raises |-> FALSE, reader |-> LongPdf]
      [] file_path = "corrupt.pdf" ->
             [open_raises |-> TRUE, len_raises |-> FALSE, reader |-> NoPages]
      [] file_path = "nopages.pdf" ->
             [open_raises |-> FALSE, len_raises |-> TRUE, reader |-> NoPages]

-----------------------------------------------------------------------------
(* extract_text *)

\* re.sub(r'\s+', ' ', s) on s[lo..hi]: the first character of every
\* whitespace run becomes one space, the rest of the run disappears
RECURSIVE SubWs(_, _, _)
SubWs(s, lo, hi) ==
    IF lo > hi THEN <<>>
    ELSE IF lo = hi
         THEN IF ~IsSpace(s[lo]) THEN <<s[lo]>>
              ELSE IF lo > 1 /\ IsSpace(s[lo - 1]) THEN <<>> ELSE <<" ">>
         ELSE LET mid == (lo + hi) \div 2
              IN  SubWs(s, lo, mid) \o SubWs(s, mid + 1, hi)

collapse_whitespace(s) == SubWs(s, 1, Len(s))

RECURSIVE join(_, _)
\* sep.join(texts)
join(sep, texts) ==
    IF Len(texts) = 0 THEN <<>>
    ELSE IF Len(texts) = 1 THEN texts[1]
    ELSE texts[1] \o sep \o join(sep, Tail(texts))

\* extract_text with the page texts joined by nothing
extract_text_unseparated(reader, page_numbers) ==
    LET texts == [k \in 1..Len(page_numbers) |->
                     reader.pages[page_numbers[k]]]
        extracted_texts == SelectSeq(texts, LAMBDA text : Len(text) > 0)
        combined_text == join(<<>>, extracted_texts)
    IN  strip(collapse_whitespace(combined_text))

extract_text(reader, page_numbers) ==
    LET texts == [k \in 1..Len(page_numbers) |->
                     reader.pages[page_numbers[k]]]
        extracted_texts == SelectSeq(texts, LAMBDA text : Len(text) > 0)
        combined_text == join(<<"\n", "\n">>, extracted_texts)
    IN  strip(collapse_whitespace(combined_text))

\* self.pdf_reader.pages[page_num - 1] raises IndexError past the last page
index_error(reader, page_numbers) ==
    \E k \in 1..Len(page_numbers) : page_numbers[k] > Len(reader.pages)

\* the page numbers handed to the reader up to the first IndexError
pages_until_error(reader, page_numbers) ==
    SubSeq(page_numbers, 1,
           CHOOSE k \in 1..Len(page_numbers) :
               /\ page_numbers[k] > Len(reader.pages)
               /\ \A j \in 1..(k - 1) : page_numbers[j] <= Len(reader.pages))

\* extract_text is a function of the document and the pages alone: its
\* values on the documents of the model, computed once
Documents == {BookPdf, LongPdf}

PageLists(reader) ==
    {range(a, b) : a \in 1..Len(reader.pages), b \in 1..Len(reader.pages)}

ExtractedTexts ==
    [call \in UNION {{<<reader, page_numbers>> :
                         page_numbers \in PageLists(reader)} :
                     reader \in Documents}
        |-> extract_text(call[1], call[2])] @@ <<>>

-----------------------------------------------------------------------------
(* validate_google_drive_link, validate_url *)

Http ==
    <<"h", "t", "t", "p", ":", "/", "/">>
Https ==
    <<"h", "t", "t", "p", "s", ":", "/", "/">>
Ftp ==
    <<"f", "t", "p", ":", "/", "/">>

google_domains ==
    {
    <<"d", "r", "i", "v", "e", ".", "g", "o", "o", "g", "l", "e", ".", "c",
      "o", "m">>,
    <<"d", "o", "c", "s", ".", "g", "o", "o", "g", "l", "e", ".", "c", "o",
      "m">>,
    <<"s", "h", "e", "e", "t", "s", ".", "g", "o", "o", "g", "l", "e", ".",
      "c", "o", "m">>,
    <<"s", "l", "i", "d", "e", "s", ".", "g", "o", "o", "g", "l", "e", ".",
      "c", "o", "m">>
    }

MsgBadScheme == "URL should start with http:// or https://"
MsgNotGoogle == "This doesn't appear to be a Google Drive/Docs link. Continue anyway?"

\* str.lower(), character by character
lower_char(c) ==
    CASE c = "A" -> "a" [] c = "B" -> "b" [] c = "C" -> "c" [] c = "D" -> "d"
      [] c = "E" -> "e" [] c = "F" -> "f" [] c = "G" -> "g" [] c = "H" -> "h"
      [] c = "I" -> "i" [] c = "J" -> "j" [] c = "K" -> "k" [] c = "L" -> "l"
      [] c = "M" -> "m" [] c = "N" -> "n" [] c = "O" -> "o" [] c = "P" -> "p"
      [] c = "Q" -> "q" [] c = "R" -> "r" [] c = "S" -> "s" [] c = "T" -> "t"
      [] c = "U" -> "u" [] c = "V" -> "v" [] c = "W" -> "w" [] c = "X" -> "x"
      [] c = "Y" -> "y" [] c = "Z" -> "z" [] OTHER -> c

lower(s) == SubSeq([i \in 1..Len(s) |-> lower_char(s[i])], 1, Len(s))

\* the pair (is_valid, warning_message); "" stands for a None message
validate_google_drive_link(url) ==
    IF Len(url) = 0 \/ Len(strip(url)) = 0
    THEN [is_valid |-> TRUE, warning_message |-> ""]
    ELSE LET u == strip(url) IN
         IF ~(startswith(u, Http) \/ startswith(u, Https))
         THEN [is_valid |-> FALSE, warning_message |-> MsgBadScheme]
         ELSE IF ~(\E domain \in google_domains : contains(lower(u), domain))
              THEN [is_valid |-> TRUE, warning_message |-> MsgNotGoogle]
              ELSE [is_valid |-> TRUE, warning_message |-> ""]

\* validate_url without the test for ftp://
validate_url_no_ftp(raw) ==
    LET url == strip(raw) IN
    IF /\ Len(url) > 0
       /\ ~(startswith(url, Http) \/ startswith(url, Https))
       /\ contains(url, <<".">>) /\ ~contains(url, <<" ">>)
    THEN Https \o url
    ELSE url

validate_url(raw) ==
    LET url == strip(raw) IN
    IF /\ Len(url) > 0
       /\ ~(startswith(url, Http) \/ startswith(url, Https)
            \/ startswith(url, Ftp))
       /\ contains(url, <<".">>) /\ ~contains(url, <<" ">>)
    THEN Https \o url
    ELSE url

-----------------------------------------------------------------------------
(* Dialogs, artifacts and the external collaborators *)

Dlg(kind, msg, answer) == [kind |-> kind, msg |-> msg, answer |-> answer]
showwarning(msg) == Dlg("showwarning", msg, "-")
showerror(msg) == Dlg("showerror", msg, "-")
showinfo(msg) == Dlg("showinfo", msg, "-")
askyesno(msg, response) == Dlg("askyesno", msg, IF response THEN "yes" ELSE "no")

MsgSelectPdf == "Please select a PDF file first"
MsgEnterPage == "Please enter a page number or range"
MsgNoText == "No text could be extracted from the specified page(s)."
MsgLargeText == "Large Text Warning"
MsgGenerated == "QR code generated successfully!"
MsgGenerateFailed == "Failed to generate QR code"
MsgEnterUrl == "Please enter a URL or text to generate QR code"
MsgGenerateFirst == "Please generate a QR code first"
MsgSaved == "QR code saved successfully"
MsgSaveFailed == "Failed to save QR code"
MsgLoaded == "PDF loaded successfully!"
MsgLoadFailed == "Failed to load PDF"

\* qrcode.QRCode(error_correction=ec); add_data(data); make; make_image
make_image(data, ec) == [data |-> data, error_correction |-> ec]

\* ImageTk.PhotoImage of the (possibly resized) image
PhotoImage(image) == [photo_of |-> image]

\* the literal between the extracted text and the link
LinkSeparator ==
    <<"\n", "\n", "-", "-", "-", "\n", "G", "o", "o", "g", "l", "e", " ",
      "D", "r", "i", "v", "e", " ", "L", "i", "n", "k", ":", " ">>

Placeholder ==
    <<"h", "t", "t", "p", "s", ":", "/", "/", "e", "x", "a", "m", "p", "l",
      "e", ".", "c", "o", "m", " ", "o", "r", " ", "a", "n", "y", " ", "t",
      "e", "x", "t">>

-----------------------------------------------------------------------------
(* What the user can type and choose *)

DigitStr == <<"0", "1", "2", "3", "4", "5", "6", "7", "8", "9">>

\* str(n) for 0 <= n < 100
str(n) ==
    IF n < 10 THEN <<DigitStr[n + 1]>>
    ELSE <<DigitStr[(n \div 10) + 1], DigitStr[(n % 10) + 1]>>

\* single pages, ranges, the first page past the end of book.pdf, a page
\* far past it, a malformed range and a blank entry
PageEntries ==
    { <<"1">>, <<"2">>, <<"1", "-", "2">>, <<"1", " ", "-", " ", "3">>,
      str(MaxPages + 1), <<"2", "5">>, <<"5", "-">>, <<" ">> }

LinkFtp ==
    <<"f", "t", "p", ":", "/", "/", "x", ".", "c", "o", "m">>
LinkExample ==
    <<"h", "t", "t", "p", "s", ":", "/", "/", "e", "x", "a", "m", "p", "l",
      "e", ".", "c", "o", "m">>
\* a Drive link typed with capitals, blanks around it and two blanks in it
LinkDrive ==
    <<" ", "h", "t", "t", "p", "s", ":", "/", "/", "D", "r", "i", "v", "e",
      ".", "g", "o", "o", "g", "l", "e", ".", "c", "o", "m", "/", "a", " ",
      " ", "b", " ">>
LinkEntries == { <<>>, LinkFtp, LinkExample, LinkDrive }

UrlEntries == { Placeholder, <<" ">>, <<"a", ".", "b">>, <<"a", " ", "b">> }

\* specifiers, links and texts that take the payload to the soft limit and
\* beyond it
LongPageEntries == { <<"1">>, <<"2">>, <<"1", "-", "2">> }

LongLinkEntries == { <<>>, LinkExample }

LongUrlEntries == { Repeat("x", SizeLimit), Repeat("x", SizeLimit + 1) }

Cancelled == ""     \* a file dialog that was cancelled returns no path

SavePaths == {"qr.png"}

-----------------------------------------------------------------------------
(* PDF workflow *)

Init ==
    /\ pdf_path = None
    /\ pdf_reader = None
    /\ total_pages = 0
    /\ qr_image = None
    /\ qr_photo = None
    /\ extracted_text = <<>>
    /\ google_drive_link = <<>>
    /\ url_qr_image = None
    /\ url_qr_photo = None
    /\ op = "__init__"
    /\ dialogs = <<>>
    /\ pages_read = <<>>
    /\ encoded = None
    /\ written = None
    /\ call_arg = <<>>
    /\ call_result = None

\* the page count taken one too large
page_count_plus_one(reader) == Len(reader.pages) + 1

\* len(self.pdf_reader.pages)
page_count(reader) == Len(reader.pages)

\* browse_pdf without the reset of the except branch
browse_pdf_keep(file_path) ==
    /\ op' = "browse_pdf"
    /\ pages_read' = <<>>
    /\ encoded' = None
    /\ written' = None
    /\ UNCHANGED <<qr_image, qr_photo, extracted_text, google_drive_link,
                   url_state, call_arg, call_result>>
    /\ IF file_path = Cancelled
       THEN /\ dialogs' = <<Dlg("askopenfilename", "Select PDF File", Cancelled)>>
            /\ UNCHANGED <<pdf_path, pdf_reader, total_pages>>
       ELSE LET opened == PdfReader(file_path) IN
            IF opened.open_raises \/ opened.len_raises
            THEN /\ dialogs' = <<Dlg("askopenfilename", "Select PDF File", file_path),
                                 showerror(MsgLoadFailed)>>
                 /\ UNCHANGED <<pdf_path, pdf_reader, total_pages>>
            ELSE /\ dialogs' = <<Dlg("askopenfilename", "Select PDF File", file_path),
                                 showinfo(MsgLoaded)>>
                 /\ pdf_reader' = Some(opened.reader)
                 /\ total_pages' = page_count(opened.reader)
                 /\ pdf_path' = Some(file_path)

browse_pdf(file_path) ==
    /\ op' = "browse_pdf"
    /\ pages_read' = <<>>
    /\ encoded' = None
    /\ written' = None
    /\ UNCHANGED <<qr_image, qr_photo, extracted_text, google_drive_link,
                   url_state, call_arg, call_result>>
    /\ IF file_path = Cancelled
       THEN /\ dialogs' = <<Dlg("askopenfilename", "Select PDF File", Cancelled)>>
            /\ UNCHANGED <<pdf_path, pdf_reader, total_pages>>
       ELSE LET opened == PdfReader(file_path) IN
            IF opened.open_raises \/ opened.len_raises
            THEN /\ dialogs' = <<Dlg("askopenfilename", "Select PDF File", file_path),
                                 showerror(MsgLoadFailed)>>
                 /\ pdf_path' = None
                 /\ pdf_reader' = None
                 /\ total_pages' = 0
            ELSE /\ dialogs' = <<Dlg("askopenfilename", "Select PDF File", file_path),
                                 showinfo(MsgLoaded)>>
                 /\ pdf_reader' = Some(opened.reader)
                 /\ total_pages' = page_count(opened.reader)
                 /\ pdf_path' = Some(file_path)

\* an early return that first resets the extracted text
return_early_reset(shown) ==
    /\ dialogs' = shown
    /\ pages_read' = <<>>
    /\ encoded' = None
    /\ extracted_text' = <<>>
    /\ UNCHANGED <<qr_image, qr_photo, google_drive_link>>

\* a return of generate_qr ahead of the extraction: nothing was assigned
return_early(shown) ==
    /\ dialogs' = shown
    /\ pages_read' = <<>>
    /\ encoded' = None
    /\ UNCHANGED <<qr_image, qr_photo, extracted_text, google_drive_link>>

\* the "no text" return that also drops the artifact on display
return_no_text_clearing(shown) ==
    /\ dialogs' = shown \o <<showwarning(MsgNoText)>>
    /\ encoded' = None
    /\ qr_image' = None
    /\ qr_photo' = None
    /\ UNCHANGED google_drive_link

\* the return after the "no text" warning: extracted_text is assigned
return_no_text(shown) ==
    /\ dialogs' = shown \o <<showwarning(MsgNoText)>>
    /\ encoded' = None
    /\ UNCHANGED <<qr_image, qr_photo, google_drive_link>>

\* text_length >= 2000
over_limit_inclusive(content) == Len(content) >= SizeLimit

\* text_length > 2000
over_limit(content) == Len(content) > SizeLimit

\* the responses a user can give to a prompt, when the prompt is shown
Responses(prompted) == IF prompted THEN BOOLEAN ELSE {TRUE}

\* the size prompt, when it is due, with the user's response
size_prompt(content, response) ==
    IF over_limit(content) THEN <<askyesno(MsgLargeText, response)>> ELSE <<>>

\* qr_content with the whitespace of the whole payload collapsed
compose_collapsing(text, drive_link) ==
    IF Len(drive_link) > 0
    THEN collapse_whitespace(text \o LinkSeparator \o drive_link)
    ELSE text

\* qr_content of generate_qr
compose(text, drive_link) ==
    IF Len(drive_link) > 0 THEN text \o LinkSeparator \o drive_link ELSE text

\* the encoder call with the artifact dropped ahead of the encoding
encode_pdf_clearing(qr_content, shown) ==
    /\ encoded' = Some(make_image(qr_content, "L"))
    /\ \E encoder_ok \in BOOLEAN :
       IF encoder_ok
       THEN /\ qr_image' = Some(make_image(qr_content, "L"))
            /\ qr_photo' = Some(PhotoImage(make_image(qr_content, "L")))
            /\ dialogs' = shown \o <<showinfo(MsgGenerated)>>
       ELSE /\ qr_image' = None
            /\ qr_photo' = None
            /\ dialogs' = shown \o <<showerror(MsgGenerateFailed)>>

\* the encoder call of generate_qr and what follows it
encode_pdf(qr_content, shown) ==
    /\ encoded' = Some(make_image(qr_content, "L"))
    /\ \E encoder_ok \in BOOLEAN :
       IF encoder_ok
       THEN /\ qr_image' = Some(make_image(qr_content, "L"))
            /\ qr_photo' = Some(PhotoImage(make_image(qr_content, "L")))
            /\ dialogs' = shown \o <<showinfo(MsgGenerated)>>
       ELSE /\ UNCHANGED <<qr_image, qr_photo>>
            /\ dialogs' = shown \o <<showerror(MsgGenerateFailed)>>

\* the size check of generate_qr and the encoding behind it
limit_and_encode_pdf(qr_content, shown) ==
    \E response \in Responses(over_limit(qr_content)) :
       IF over_limit(qr_content) /\ ~response
       THEN /\ dialogs' = shown \o size_prompt(qr_content, FALSE)
            /\ encoded' = None
            /\ UNCHANGED <<qr_image, qr_photo>>
       ELSE encode_pdf(qr_content, shown \o size_prompt(qr_content, TRUE))

\* generate_qr from the assignment of self.extracted_text on
store_and_encode(text, page_numbers, drive_link, shown) ==
    /\ pages_read' = page_numbers
    /\ extracted_text' = text
    /\ IF Len(text) = 0
       THEN return_no_text(shown)
       ELSE /\ google_drive_link' = drive_link
            /\ limit_and_encode_pdf(compose(text, drive_link), shown)

\* the try block of generate_qr
extract_and_encode(page_numbers, drive_link, shown) ==
    IF index_error(pdf_reader[1], page_numbers)
    THEN /\ pages_read' = pages_until_error(pdf_reader[1], page_numbers)
         /\ dialogs' = shown \o <<showerror(MsgGenerateFailed)>>
         /\ encoded' = None
         /\ UNCHANGED <<qr_image, qr_photo, extracted_text, google_drive_link>>
    ELSE store_and_encode(ExtractedTexts[<<pdf_reader[1], page_numbers>>],
                          page_numbers, drive_link, shown)

generate_qr(entry_page, entry_link) ==
    /\ op' = "generate_qr"
    /\ written' = None
    /\ UNCHANGED <<pdf_path, pdf_reader, total_pages, url_state,
                   call_arg, call_result>>
    /\ IF pdf_reader = None
       THEN return_early(<<showwarning(MsgSelectPdf)>>)
       ELSE
       LET page_input == strip(entry_page) IN
       IF Len(page_input) = 0
       THEN return_early(<<showwarning(MsgEnterPage)>>)
       ELSE
       LET parsed == parse_page_input(page_input, total_pages)
           drive_link == strip(entry_link)
           checked == validate_google_drive_link(drive_link)
           advisory == Len(drive_link) > 0 /\ checked.warning_message # ""
           asked(response) ==
               IF advisory
               THEN <<askyesno(checked.warning_message, response)>>
               ELSE <<>>
       IN  IF ~parsed.ok
           THEN return_early(<<showerror(parsed.error)>>)
           ELSE IF Len(drive_link) > 0 /\ ~checked.is_valid
           THEN return_early(<<showerror(checked.warning_message)>>)
           ELSE \E response \in Responses(advisory) :
                   IF advisory /\ ~response
                   THEN return_early(asked(FALSE))
                   ELSE extract_and_encode(parsed.pages, drive_link,
                                           asked(TRUE))

\* save_qr that drops the artifact when the write fails
save_qr_dropping(file_path, io_ok) ==
    /\ op' = "save_qr"
    /\ pages_read' = <<>>
    /\ encoded' = None
    /\ UNCHANGED <<pdf_path, pdf_reader, total_pages, extracted_text,
                   google_drive_link, url_state, call_arg, call_result>>
    /\ IF qr_image = None
       THEN /\ dialogs' = <<showwarning(MsgGenerateFirst)>>
            /\ written' = None
            /\ UNCHANGED <<qr_image, qr_photo>>
       ELSE IF file_path = Cancelled
       THEN /\ dialogs' = <<Dlg("asksaveasfilename", "Save QR Code", Cancelled)>>
            /\ written' = None
            /\ UNCHANGED <<qr_image, qr_photo>>
       ELSE IF io_ok
       THEN /\ dialogs' = <<Dlg("asksaveasfilename", "Save QR Code", file_path),
                            showinfo(MsgSaved)>>
            /\ written' = Some([path |-> file_path, image |-> qr_image[1]])
            /\ UNCHANGED <<qr_image, qr_photo>>
       ELSE /\ dialogs' = <<Dlg("asksaveasfilename", "Save QR Code", file_path),
                            showerror(MsgSaveFailed)>>
            /\ written' = None
            /\ qr_image' = None
            /\ qr_photo' = None

save_qr(file_path, io_ok) ==
    /\ op' = "save_qr"
    /\ pages_read' = <<>>
    /\ encoded' = None
    /\ UNCHANGED <<pdf_state, url_state, call_arg, call_result>>
    /\ IF qr_image = None
       THEN /\ dialogs' = <<showwarning(MsgGenerateFirst)>>
            /\ written' = None
       ELSE IF file_path = Cancelled
       THEN /\ dialogs' = <<Dlg("asksaveasfilename", "Save QR Code", Cancelled)>>
            /\ written' = None
       ELSE IF io_ok
       THEN /\ dialogs' = <<Dlg("asksaveasfilename", "Save QR Code", file_path),
                            showinfo(MsgSaved)>>
            /\ written' = Some([path |-> file_path, image |-> qr_image[1]])
       ELSE /\ dialogs' = <<Dlg("asksaveasfilename", "Save QR Code", file_path),
                            showerror(MsgSaveFailed)>>
            /\ written' = None

\* clear_form that leaves the artifact of the PDF workflow in place
clear_form_keeping_artifact ==
    /\ op' = "clear_form"
    /\ pdf_path' = None
    /\ pdf_reader' = None
    /\ total_pages' = 0
    /\ extracted_text' = <<>>
    /\ google_drive_link' = <<>>
    /\ dialogs' = <<>>
    /\ pages_read' = <<>>
    /\ encoded' = None
    /\ written' = None
    /\ UNCHANGED <<qr_image, qr_photo, url_state, call_arg, call_result>>

clear_form ==
    /\ op' = "clear_form"
    /\ pdf_path' = None
    /\ pdf_reader' = None
    /\ total_pages' = 0
    /\ qr_image' = None
    /\ qr_photo' = None
    /\ extracted_text' = <<>>
    /\ google_drive_link' = <<>>
    /\ dialogs' = <<>>
    /\ pages_read' = <<>>
    /\ encoded' = None
    /\ written' = None
    /\ UNCHANGED <<url_state, call_arg, call_result>>

-----------------------------------------------------------------------------
(* URL workflow *)

\* the encoder call of the URL workflow with the profile of the PDF workflow
encode_url_low(content, shown) ==
    /\ encoded' = Some(make_image(content, "L"))
    /\ \E encoder_ok \in BOOLEAN :
       IF encoder_ok
       THEN /\ url_qr_image' = Some(make_image(content, "L"))
            /\ url_qr_photo' = Some(PhotoImage(make_image(content, "L")))
            /\ dialogs' = shown \o <<showinfo(MsgGenerated)>>
       ELSE /\ UNCHANGED url_state
            /\ dialogs' = shown \o <<showerror(MsgGenerateFailed)>>

\* the encoder call of generate_qr_from_url and what follows it
encode_url(content, shown) ==
    /\ encoded' = Some(make_image(content, "H"))
    /\ \E encoder_ok \in BOOLEAN :
       IF encoder_ok
       THEN /\ url_qr_image' = Some(make_image(content, "H"))
            /\ url_qr_photo' = Some(PhotoImage(make_image(content, "H")))
            /\ dialogs' = shown \o <<showinfo(MsgGenerated)>>
       ELSE /\ UNCHANGED url_state
            /\ dialogs' = shown \o <<showerror(MsgGenerateFailed)>>

\* the size check of generate_qr_from_url and the encoding behind it
limit_and_encode_url(content) ==
    \E response \in Responses(over_limit(content)) :
       IF over_limit(content) /\ ~response
       THEN /\ dialogs' = size_prompt(content, FALSE)
            /\ encoded' = None
            /\ UNCHANGED url_state
       ELSE encode_url(content, size_prompt(content, TRUE))

generate_qr_from_url(entry_url) ==
    /\ op' = "generate_qr_from_url"
    /\ pages_read' = <<>>
    /\ written' = None
    /\ UNCHANGED <<pdf_state, call_arg, call_result>>
    /\ IF entry_url = Placeholder \/ Len(strip(entry_url)) = 0
       THEN /\ dialogs' = <<showwarning(MsgEnterUrl)>>
            /\ encoded' = None
            /\ UNCHANGED url_state
       ELSE limit_and_encode_url(validate_url(entry_url))

\* clear_url_input that clears the artifact of the PDF workflow as well
clear_url_input_both ==
    /\ op' = "clear_url_input"
    /\ url_qr_image' = None
    /\ url_qr_photo' = None
    /\ qr_image' = None
    /\ qr_photo' = None
    /\ dialogs' = <<>>
    /\ pages_read' = <<>>
    /\ encoded' = None
    /\ written' = None
    /\ UNCHANGED <<pdf_path, pdf_reader, total_pages, extracted_text,
                   google_drive_link, call_arg, call_result>>

clear_url_input ==
    /\ op' = "clear_url_input"
    /\ url_qr_image' = None
    /\ url_qr_photo' = None
    /\ dialogs' = <<>>
    /\ pages_read' = <<>>
    /\ encoded' = None
    /\ written' = None
    /\ UNCHANGED <<pdf_state, call_arg, call_result>>

save_url_qr_code(file_path, io_ok) ==
    /\ op' = "save_url_qr_code"
    /\ pages_read' = <<>>
    /\ encoded' = None
    /\ UNCHANGED <<pdf_state, url_state, call_arg, call_result>>
    /\ IF url_qr_image = None
       THEN /\ dialogs' = <<showwarning(MsgGenerateFirst)>>
            /\ written' = None
       ELSE IF file_path = Cancelled
       THEN /\ dialogs' = <<Dlg("asksaveasfilename", "Save QR Code", Cancelled)>>
            /\ written' = None
       ELSE IF io_ok
       THEN /\ dialogs' = <<Dlg("asksaveasfilename", "Save QR Code", file_path),
                            showinfo(MsgSaved)>>
            /\ written' = Some([path |-> file_path, image |-> url_qr_image[1]])
       ELSE /\ dialogs' = <<Dlg("asksaveasfilename", "Save QR Code", file_path),
                            showerror(MsgSaveFailed)>>
            /\ written' = None

-----------------------------------------------------------------------------
(* The session: any sequence of user actions *)

Session(paths, page_entries, link_entries, url_entries) ==
    \/ \E file_path \in paths \cup {Cancelled} : browse_pdf(file_path)
    \/ \E entry_page \in page_entries, entry_link \in link_entries :
          generate_qr(entry_page, entry_link)
    \/ \E file_path \in SavePaths \cup {Cancelled}, io_ok \in BOOLEAN :
          save_qr(file_path, io_ok)
    \/ clear_form
    \/ \E entry_url \in url_entries : generate_qr_from_url(entry_url)
    \/ \E file_path \in SavePaths \cup {Cancelled}, io_ok \in BOOLEAN :
          save_url_qr_code(file_path, io_ok)
    \/ clear_url_input

Next == Session(PdfPaths, PageEntries, LinkEntries, UrlEntries)

Spec == Init /\ [][Next]_vars

\* the same session on the inputs that reach the soft limit
LimitNext ==
    Session(LongPdfPaths, LongPageEntries, LongLinkEntries, LongUrlEntries)

SpecLimit == Init /\ [][LimitNext]_vars

-----------------------------------------------------------------------------
(* The page specifier parser on its own: a document of 1..MaxPages pages   *)
(* is loaded and parse_page_input is called on any short string            *)

SpecifierChars ==
    {"-", " ", "a"} \cup
    {c \in Digits : DigitVal(c) <= MaxPages + 1}

Specifiers == UNION {[1..n -> SpecifierChars] : n \in 0..MaxLen}

ParseInit ==
    /\ \E n \in 1..MaxPages :
          /\ pdf_path = Some("book.pdf")
          /\ pdf_reader = Some(Book(n))
          /\ total_pages = page_count(Book(n))
    /\ qr_image = None
    /\ qr_photo = None
    /\ extracted_text = <<>>
    /\ google_drive_link = <<>>
    /\ url_qr_image = None
    /\ url_qr_photo = None
    /\ op = "browse_pdf"
    /\ dialogs = <<>>
    /\ pages_read = <<>>
    /\ encoded = None
    /\ written = None
    /\ call_arg \in Specifiers
    /\ call_result = None

call_parse_page_input ==
    /\ op' = "parse_page_input"
    /\ call_result' = Some(parse_page_input(call_arg, total_pages))
    /\ UNCHANGED <<pdf_state, url_state, dialogs, pages_read, encoded,
                   written, call_arg>>

ParseNext == call_parse_page_input

SpecParse == ParseInit /\ [][ParseNext]_vars

-----------------------------------------------------------------------------
(* The link validator on its own: validate_google_drive_link is called on  *)
(* a link made of a scheme, a host and a tail, with or without blanks      *)
(* around it                                                               *)

\* the session right after __init__, up to the direct call
Constructed ==
    /\ pdf_path = None
    /\ pdf_reader = None
    /\ total_pages = 0
    /\ qr_image = None
    /\ qr_photo = None
    /\ extracted_text = <<>>
    /\ google_drive_link = <<>>
    /\ url_qr_image = None
    /\ url_qr_photo = None
    /\ op = "__init__"
    /\ dialogs = <<>>
    /\ pages_read = <<>>
    /\ encoded = None
    /\ written = None

GoogleCom ==
    <<".", "g", "o", "o", "g", "l", "e", ".", "c", "o", "m">>

LinkSchemes ==
    { <<>>, Http, Https, Ftp, <<"H", "T", "T", "P", ":", "/", "/">> }

LinkHosts ==
    { <<"x", ".", "y">>,
      <<"d", "r", "i", "v", "e">> \o GoogleCom,
      <<"D", "o", "c", "s", ".", "G", "o", "o", "g", "l", "e", ".", "c", "o", "m">>,
      <<"s", "h", "e", "e", "t", "s">> \o GoogleCom,
      <<"s", "l", "i", "d", "e", "s">> \o GoogleCom,
      <<"m", "a", "i", "l">> \o GoogleCom }

LinkTails ==
    { <<>>, <<"/", "a">>, <<"/">> \o <<"d", "o", "c", "s">> \o GoogleCom }

LinkPads == { <<>>, <<" ">> }

Links ==
    { <<>>, <<" ">>, <<"\t", "\n">> } \cup
    { before \o scheme \o host \o tail \o after :
          before \in LinkPads, scheme \in LinkSchemes, host \in LinkHosts,
          tail \in LinkTails, after \in LinkPads }

LinkInit ==
    /\ Constructed
    /\ call_arg \in Links
    /\ call_result = None

call_validate_google_drive_link ==
    /\ op' = "validate_google_drive_link"
    /\ call_result' = Some(validate_google_drive_link(call_arg))
    /\ UNCHANGED <<pdf_state, url_state, dialogs, pages_read, encoded,
                   written, call_arg>>

LinkNext == call_validate_google_drive_link

SpecLink == LinkInit /\ [][LinkNext]_vars

-----------------------------------------------------------------------------
(* The URL normalizer on its own: validate_url is called on a text made of *)
(* a scheme or none and any short string, and then on its own result       *)

UrlChars == {"a", ".", " ", "\t"}

UrlSchemes == { <<>>, Http, Https, Ftp }

UrlTexts ==
    { scheme \o rest :
          scheme \in UrlSchemes,
          rest \in UNION {[1..n -> UrlChars] : n \in 0..MaxLen} }

UrlInit ==
    /\ Constructed
    /\ call_arg \in UrlTexts
    /\ call_result = None

call_validate_url ==
    /\ call_result = None
    /\ op' = "validate_url"
    /\ call_result' = Some(validate_url(call_arg))
    /\ UNCHANGED <<pdf_state, url_state, dialogs, pages_read, encoded,
                   written, call_arg>>

\* validate_url on what validate_url returned
call_validate_url_again ==
    /\ op = "validate_url"
    /\ op' = "validate_url again"
    /\ call_arg' = call_result[1]
    /\ call_result' = Some(validate_url(call_result[1]))
    /\ UNCHANGED <<pdf_state, url_state, dialogs, pages_read, encoded,
                   written>>

UrlNext == call_validate_url \/ call_validate_url_again

SpecUrl == UrlInit /\ [][UrlNext]_vars

-----------------------------------------------------------------------------
(* The text extractor on its own: a document of 1..MaxPages pages, each    *)
(* with one of the page texts, is loaded and extract_text is called on a   *)
(* range of its pages                                                      *)

\* what page.extract_text() can return: text with newlines, tabs and runs
\* of blanks, nothing, and whitespace alone
PageTexts == {BookPage(i) : i \in 1..4}

ShortDocuments ==
    {[pages |-> texts] :
        texts \in UNION {[1..n -> PageTexts] : n \in 1..MaxPages}}

ExtractInit ==
    /\ \E reader \in ShortDocuments :
          /\ pdf_path = Some("book.pdf")
          /\ pdf_reader = Some(reader)
          /\ total_pages = page_count(reader)
          /\ call_arg \in PageLists(reader) \ {<<>>}
    /\ qr_image = None
    /\ qr_photo = None
    /\ extracted_text = <<>>
    /\ google_drive_link = <<>>
    /\ url_qr_image = None
    /\ url_qr_photo = None
    /\ op = "browse_pdf"
    /\ dialogs = <<>>
    /\ pages_read = <<>>
    /\ encoded = None
    /\ written = None
    /\ call_result = None

call_extract_text ==
    /\ op' = "extract_text"
    /\ pages_read' = call_arg
    /\ call_result' = Some(extract_text(pdf_reader[1], call_arg))
    /\ UNCHANGED <<pdf_state, url_state, dialogs, encoded, written,
                   call_arg>>

ExtractNext == call_extract_text

SpecExtract == ExtractInit /\ [][ExtractNext]_vars

-----------------------------------------------------------------------------
(* The page specifier grammar, as the specification words it *)

IsNumber(s) == Len(s) >= 1 /\ \A i \in 1..Len(s) : s[i] \in Digits

IsBlank(s) == \A i \in 1..Len(s) : s[i] \in Whitespace

RECURSIVE Pow10(_)
Pow10(k) == IF k = 0 THEN 1 ELSE 10 * Pow10(k - 1)

RECURSIVE Weighted(_, _)
Weighted(s, i) ==
    IF i > Len(s) THEN 0
    ELSE DigitVal(s[i]) * Pow10(Len(s) - i) + Weighted(s, i + 1)

\* the number a digit string denotes
NumberOf(s) == Weighted(s, 1)

\* the pairs <<A, B>> that s denotes when read as number-dash-number
RangeReadings(s) ==
    {<<NumberOf(SubSeq(s, 1, p)), NumberOf(SubSeq(s, r, Len(s)))>> :
        <<p, q, r>> \in
            {t \in (1..Len(s)) \X (1..Len(s)) \X (1..Len(s)) :
                /\ t[1] < t[2] /\ t[2] < t[3]
                /\ s[t[2]] = "-"
                /\ IsNumber(SubSeq(s, 1, t[1]))
                /\ IsBlank(SubSeq(s, t[1] + 1, t[2] - 1))
                /\ IsBlank(SubSeq(s, t[2] + 1, t[3] - 1))
                /\ IsNumber(SubSeq(s, t[3], Len(s)))}}

ValidSingle(s, T) == IsNumber(s) /\ NumberOf(s) \in 1..T

ValidRanges(s, T) ==
    {ab \in RangeReadings(s) :
        ab[1] \in 1..T /\ ab[2] \in 1..T /\ ab[1] <= ab[2]}

IsInterval(pages, A, B) ==
    /\ Len(pages) = B - A + 1
    /\ \A k \in 1..Len(pages) : pages[k] = A + k - 1

\* C1: on a document of T > 0 pages, a specifier "N" with 1 <= N <= T
\* returns exactly [N], a specifier "A-B" with 1 <= A <= B <= T returns
\* exactly [A, A+1, ..., B], and every other specifier is rejected with a
\* validation error and no page list.
C1_ParserContract ==
    call_result # None =>
        LET s == strip(call_arg)
            r == call_result[1]
            T == total_pages
        IN  /\ ValidSingle(s, T) =>
                  r.ok /\ r.pages = <<NumberOf(s)>>
            /\ \A ab \in ValidRanges(s, T) :
                  r.ok /\ IsInterval(r.pages, ab[1], ab[2])
            /\ (~ValidSingle(s, T) /\ ValidRanges(s, T) = {}) =>
                  ~r.ok /\ r.pages = <<>> /\ r.error # ""

\* a range of at least two pages was returned
C1_Witness ==
    /\ call_result # None
    /\ call_result[1].ok
    /\ Len(call_result[1].pages) >= 2
    /\ RangeReadings(strip(call_arg)) # {}

ReasonOf(error) ==
    CASE error \in {ErrRangeFormat, ErrPageFormat} -> "format"
      [] error \in {ErrRangeBelow1, ErrPageBelow1} -> "endpoint below 1"
      [] error = ErrStartGtEnd -> "start after end"
      [] error \in {ErrEndExceeds, ErrPageExceeds} -> "beyond total pages"
      [] OTHER -> "none"

\* the first failing check in the order format, each endpoint >= 1,
\* start <= end, end (or the single page) <= total pages
FirstFailure(s, T) ==
    IF IsNumber(s)
    THEN IF NumberOf(s) < 1 THEN "endpoint below 1"
         ELSE IF NumberOf(s) > T THEN "beyond total pages"
         ELSE "none"
    ELSE IF RangeReadings(s) = {} THEN "format"
    ELSE LET ab == CHOOSE x \in RangeReadings(s) : TRUE
         IN  IF ab[1] < 1 \/ ab[2] < 1 THEN "endpoint below 1"
             ELSE IF ab[1] > ab[2] THEN "start after end"
             ELSE IF ab[2] > T THEN "beyond total pages"
             ELSE "none"

\* C2: a rejected specifier is reported with the reason of the first failing
\* check in the order format, each endpoint >= 1 (start and end), start <=
\* end, end <= total pages; a range ending in 0 with a larger start is an
\* endpoint-below-1 failure.
C2_ValidationOrder ==
    (call_result # None /\ ~call_result[1].ok) =>
        ReasonOf(call_result[1].error)
            = FirstFailure(strip(call_arg), total_pages)

-----------------------------------------------------------------------------
(* The session's handlers *)

LastDialog == dialogs[Len(dialogs)]

Shown(dialog) == \E i \in 1..Len(dialogs) : dialogs[i] = dialog

\* C3: every page number generate_qr passes to the text extraction lies in
\* [1, page count of the loaded document], the pages are ascending, and a
\* specifier beyond the page count or a generate without a document reads
\* no page.
C3_PagesWithinDocument ==
    /\ pdf_reader = None => pages_read = <<>>
    /\ pdf_reader # None =>
          /\ \A k \in 1..Len(pages_read) :
                pages_read[k] \in 1..Len(pdf_reader[1].pages)
          /\ \A k \in 1..(Len(pages_read) - 1) :
                pages_read[k] < pages_read[k + 1]
    /\ (\/ Shown(showerror(ErrPageExceeds))
        \/ Shown(showerror(ErrEndExceeds))
        \/ Shown(showwarning(MsgSelectPdf))) => pages_read = <<>>

\* a range up to the last page of the document was extracted
C3_Witness ==
    /\ op = "generate_qr"
    /\ pdf_reader # None
    /\ Len(pages_read) >= 2
    /\ pages_read[Len(pages_read)] = Len(pdf_reader[1].pages)

ValidationErrors ==
    {ErrRangeFormat, ErrRangeBelow1, ErrStartGtEnd, ErrEndExceeds,
     ErrPageFormat, ErrPageBelow1, ErrPageExceeds, MsgBadScheme}

ValidationAbort ==
    /\ op = "generate_qr"
    /\ Len(dialogs) = 1
    /\ dialogs[1].kind = "showerror"
    /\ dialogs[1].msg \in ValidationErrors

\* C4: a generate_qr that aborts on a malformed or out-of-range page
\* specifier or on a malformed link leaves the document handle, the page
\* count, the extracted text, the stored link and the artifact as they were.
C4_ValidationAbortFrame == [][ValidationAbort' => UNCHANGED pdf_state]_vars

\* a malformed link was rejected while an artifact and its text existed
C4_Witness ==
    /\ ValidationAbort
    /\ dialogs[1].msg = MsgBadScheme
    /\ qr_image # None
    /\ extracted_text # <<>>

SizePrompts ==
    {i \in 1..Len(dialogs) :
        dialogs[i].kind = "askyesno" /\ dialogs[i].msg = MsgLargeText}

Confirmed == \E i \in SizePrompts : dialogs[i].answer = "yes"

Declined == \E i \in SizePrompts : dialogs[i].answer = "no"

\* C5: in both workflows a payload longer than 2000 characters reaches the
\* encoder only after the user confirmed in that action, a payload of at
\* most 2000 characters is encoded without a prompt, and a confirmed
\* payload is handed to the encoder whatever its length.
C5_SizeLimitPolicy ==
    /\ (encoded # None /\ Len(encoded[1].data) > SizeLimit) => Confirmed
    /\ (encoded # None /\ Len(encoded[1].data) <= SizeLimit) => SizePrompts = {}
    /\ Confirmed => (encoded # None /\ Len(encoded[1].data) > SizeLimit)
    /\ Declined => encoded = None

\* generate_qr encoded a confirmed payload beyond the limit
C5_Witness ==
    /\ op = "generate_qr"
    /\ Confirmed
    /\ encoded # None
    /\ Len(encoded[1].data) > SizeLimit + Len(LinkSeparator)

\* C6: declining the size confirmation leaves the whole session state as it
\* was before the action: no artifact produced or cleared, and document
\* handle, page count, extracted text and stored link unchanged.
C6_DeclineFrame == [][Declined' => UNCHANGED <<pdf_state, url_state>>]_vars

EmptyExtraction ==
    /\ op = "generate_qr"
    /\ pdf_reader # None
    /\ pages_read # <<>>
    /\ ~index_error(pdf_reader[1], pages_read)
    /\ ExtractedTexts[<<pdf_reader[1], pages_read>>] = <<>>

\* C7: when the selected pages yield an empty normalized text, generate_qr
\* warns and aborts before the encoder, and the artifact of an earlier
\* generation stays as it was.
C7_EmptyTextAbort ==
    [][EmptyExtraction' =>
          /\ LastDialog' = showwarning(MsgNoText)
          /\ encoded' = None
          /\ UNCHANGED <<qr_image, qr_photo>>]_vars

\* the warning was given while an earlier artifact was held
C7_Witness ==
    /\ EmptyExtraction
    /\ LastDialog = showwarning(MsgNoText)
    /\ qr_image # None

Browsed == op = "browse_pdf" /\ dialogs[1].kind = "askopenfilename"

CancelledOpen == Browsed /\ dialogs[1].answer = Cancelled

FailedOpen ==
    /\ Browsed
    /\ dialogs[1].answer # Cancelled
    /\ \/ PdfReader(dialogs[1].answer).open_raises
       \/ PdfReader(dialogs[1].answer).len_raises

NoneLoaded == pdf_reader = None /\ pdf_path = None /\ total_pages = 0

\* C8: a failed open leaves no document loaded (handle and path cleared,
\* total pages 0) whatever was loaded before, a cancelled dialog keeps the
\* loaded document, and while no document is loaded generate_qr only warns
\* "select a PDF first"; only a successful open loads a document.
C8_OpenFailureResets ==
    [][/\ FailedOpen' => (NoneLoaded' /\ LastDialog' = showerror(MsgLoadFailed))
       /\ CancelledOpen' => UNCHANGED pdf_state
       /\ (pdf_reader = None /\ op' = "generate_qr") =>
             /\ dialogs' = <<showwarning(MsgSelectPdf)>>
             /\ pages_read' = <<>>
             /\ encoded' = None
             /\ UNCHANGED pdf_state
       /\ (pdf_reader = None /\ pdf_reader' # None) =>
             (Browsed' /\ ~FailedOpen' /\ ~CancelledOpen')]_vars

\* an open failed in a session that had generated an artifact from a
\* document loaded earlier
C8_Witness == FailedOpen /\ NoneLoaded /\ qr_image # None

EncoderFailed ==
    /\ encoded # None
    /\ LastDialog = showerror(MsgGenerateFailed)

\* C9: when the encoder fails, in either workflow, the error is reported
\* and the artifacts are the ones held before the action.
C9_EncoderFailureFrame ==
    [][/\ EncoderFailed' => UNCHANGED <<qr_image, qr_photo, url_state>>
       /\ (encoded' # None /\ ~EncoderFailed') =>
             LastDialog' = showinfo(MsgGenerated)]_vars

\* the encoder failed on a payload other than the one of the artifact held
C9_Witness ==
    /\ op = "generate_qr"
    /\ EncoderFailed
    /\ qr_image # None
    /\ qr_image[1] # encoded[1]

SaveDialogs ==
    {i \in 1..Len(dialogs) : dialogs[i].kind = "asksaveasfilename"}

\* C10: a save, failed, cancelled or successful, leaves the artifact as it
\* was; a cancelled dialog writes nothing; a save without an artifact only
\* warns, opens no dialog and writes nothing.
C10_SaveFrame ==
    [][(op' \in {"save_qr", "save_url_qr_code"}) =>
          /\ UNCHANGED <<pdf_state, url_state>>
          /\ (\E i \in SaveDialogs' : dialogs'[i].answer = Cancelled) =>
                written' = None
          /\ (\/ op' = "save_qr" /\ qr_image = None
              \/ op' = "save_url_qr_code" /\ url_qr_image = None) =>
                /\ dialogs' = <<showwarning(MsgGenerateFirst)>>
                /\ written' = None
          /\ written' # None =>
                written'[1].image =
                    IF op' = "save_qr" THEN qr_image[1] ELSE url_qr_image[1]]_vars

\* a write failed and the artifact is still held
C10_Witness ==
    /\ op = "save_qr"
    /\ LastDialog = showerror(MsgSaveFailed)
    /\ qr_image # None

-----------------------------------------------------------------------------
(* Composition of the payload *)

\* the separator and label, as the specification writes them
SuffixLiteral ==
    <<"\n", "\n", "-", "-", "-", "\n">> \o
    <<"G", "o", "o", "g", "l", "e", " ">> \o
    <<"D", "r", "i", "v", "e", " ">> \o
    <<"L", "i", "n", "k", ":", " ">>

\* generate_qr handed a payload to the encoder
PdfPayload == op = "generate_qr" /\ encoded # None

\* the link the last generate_qr was given, trimmed: it is stored in
\* google_drive_link by every generate_qr that reaches the encoder
Trimmed(s) == Len(s) > 0 /\ ~IsSpace(s[1]) /\ ~IsSpace(s[Len(s)])

\* C11: the payload generate_qr hands to the encoder is the extracted text
\* of the pages read, followed, when a link was supplied, by the literal
\* "\n\n---\nGoogle Drive Link: " and the trimmed link with its inner
\* whitespace untouched; without a link it is the extracted text alone.
C11_PayloadComposition ==
    PdfPayload =>
        /\ extracted_text = ExtractedTexts[<<pdf_reader[1], pages_read>>]
        /\ IF google_drive_link # <<>>
           THEN /\ Trimmed(google_drive_link)
                /\ encoded[1].data
                      = extracted_text \o SuffixLiteral \o google_drive_link
           ELSE encoded[1].data = extracted_text

\* a payload whose link has two adjacent blanks in it
C11_Witness ==
    /\ PdfPayload
    /\ google_drive_link # <<>>
    /\ \E i \in 1..(Len(google_drive_link) - 1) :
          google_drive_link[i] = " " /\ google_drive_link[i + 1] = " "
    /\ Len(encoded[1].data)
          = Len(extracted_text) + Len(SuffixLiteral) + Len(google_drive_link)

-----------------------------------------------------------------------------
(* The auxiliary link *)

\* the recognized cloud-document domains: drive, docs, sheets and slides on
\* the host google.com
RecognizedDomains ==
    { label \o <<".", "g", "o", "o", "g", "l", "e", ".", "c", "o", "m">> :
          label \in { <<"d", "r", "i", "v", "e">>, <<"d", "o", "c", "s">>,
                      <<"s", "h", "e", "e", "t", "s">>,
                      <<"s", "l", "i", "d", "e", "s">> } }

HasWebScheme(u) ==
    \/ startswith(u, <<"h", "t", "t", "p", ":", "/", "/">>)
    \/ startswith(u, <<"h", "t", "t", "p", "s", ":", "/", "/">>)

\* what follows the "//" of the scheme
AfterScheme(u) ==
    LET slashes == CHOOSE i \in 1..(Len(u) - 1) :
                       /\ u[i] = "/" /\ u[i + 1] = "/"
                       /\ \A j \in 1..(i - 1) : u[j] # "/"
    IN  SubSeq(u, slashes + 2, Len(u))

\* the host of a URL: what stands between the scheme and the first "/",
\* "?" or "#"; host names do not distinguish capitals
HostOf(u) ==
    LET rest == AfterScheme(u)
        ends == {i \in 1..Len(rest) : rest[i] \in {"/", "?", "#"}}
        stop == IF ends = {} THEN Len(rest) + 1
                ELSE CHOOSE i \in ends : \A j \in ends : i <= j
    IN  lower(SubSeq(rest, 1, stop - 1))

MatchesRecognizedDomain(u) == HostOf(u) \in RecognizedDomains

LinkOutcome(u) ==
    IF IsBlank(u) THEN "valid"
    ELSE IF ~HasWebScheme(strip(u)) THEN "invalid"
    ELSE IF MatchesRecognizedDomain(strip(u)) THEN "valid"
    ELSE "advisory"

OutcomeOf(r) ==
    IF ~r.is_valid THEN "invalid"
    ELSE IF r.warning_message = "" THEN "valid"
    ELSE "advisory"

\* C12: validate_google_drive_link finds a blank link valid without a
\* warning, a link that does not start with http:// or https:// invalid,
\* and an http(s) link valid, with the advisory warning exactly when its
\* host is not one of the recognized cloud-document domains.
C12_LinkClassification ==
    call_result # None =>
        OutcomeOf(call_result[1]) = LinkOutcome(call_arg)

\* the advisory prompts of the last generate_qr
AdvisoryPrompts ==
    {i \in 1..Len(dialogs) : dialogs[i] = askyesno(MsgNotGoogle, TRUE)
                             \/ dialogs[i] = askyesno(MsgNotGoogle, FALSE)}

\* C12, in generate_qr: a link that carries the advisory warning is put to
\* the user before any page is read or anything is encoded; after a "no"
\* nothing is read and nothing encoded, and a payload with such a link is
\* encoded only after a "yes".
C12_AdvisoryConfirmed ==
    op = "generate_qr" =>
        /\ \A i \in AdvisoryPrompts :
              /\ i = 1
              /\ dialogs[i].answer = "no" =>
                    pages_read = <<>> /\ encoded = None /\ Len(dialogs) = 1
        /\ ( /\ encoded # None
             /\ google_drive_link # <<>>
             /\ ~MatchesRecognizedDomain(google_drive_link) )
           => dialogs[1] = askyesno(MsgNotGoogle, TRUE)

-----------------------------------------------------------------------------
(* The URL normalizer *)

HttpsPrefix == <<"h", "t", "t", "p", "s", ":", "/", "/">>

HasScheme(t) ==
    \/ startswith(t, <<"h", "t", "t", "p", ":", "/", "/">>)
    \/ startswith(t, HttpsPrefix)
    \/ startswith(t, <<"f", "t", "p", ":", "/", "/">>)

HasChar(t, c) == \E i \in 1..Len(t) : t[i] = c

\* the trimmed text looks like a bare domain
BareDomain(t) ==
    Len(t) > 0 /\ ~HasScheme(t) /\ HasChar(t, ".") /\ ~HasChar(t, " ")

\* C13: validate_url returns the trimmed input with "https://" in front
\* exactly when the trimmed input is non-empty, has none of the schemes
\* http://, https://, ftp://, has a '.' in it and no space; otherwise it
\* returns the trimmed input.  Called on its own result it returns that
\* result.
C13_UrlNormalizer ==
    /\ op = "validate_url" =>
          call_result[1] = IF BareDomain(strip(call_arg))
                           THEN HttpsPrefix \o strip(call_arg)
                           ELSE strip(call_arg)
    /\ op = "validate_url again" => call_result[1] = call_arg

\* a bare domain typed with blanks around it was trimmed and got its scheme
C13_Witness ==
    /\ op = "validate_url"
    /\ strip(call_arg) # call_arg
    /\ BareDomain(strip(call_arg))
    /\ call_result[1] = HttpsPrefix \o strip(call_arg)

-----------------------------------------------------------------------------
(* Text normalization *)

\* the end of the token that starts at position i of s
TokenEnd(s, i) ==
    CHOOSE j \in i..Len(s) :
        /\ \A k \in i..j : ~IsSpace(s[k])
        /\ j = Len(s) \/ IsSpace(s[j + 1])

\* the tokens of s from position i on: its maximal runs of characters that
\* are not whitespace, in order
RECURSIVE TokensFrom(_, _)
TokensFrom(s, i) ==
    IF i > Len(s) THEN <<>>
    ELSE IF IsSpace(s[i]) THEN TokensFrom(s, i + 1)
    ELSE <<SubSeq(s, i, TokenEnd(s, i))>> \o TokensFrom(s, TokenEnd(s, i) + 1)

Tokens(s) == TokensFrom(s, 1)

\* the text of the k-th page asked for
PageText(k) == pdf_reader[1].pages[call_arg[k]]

\* the tokens of the pages asked for, from the k-th on, in page order
RECURSIVE PageTokensFrom(_)
PageTokensFrom(k) ==
    IF k > Len(call_arg) THEN <<>>
    ELSE Tokens(PageText(k)) \o PageTokensFrom(k + 1)

\* no whitespace at either end, and no whitespace but single blanks
Normalized(r) ==
    /\ Len(r) > 0 => ~IsSpace(r[1]) /\ ~IsSpace(r[Len(r)])
    /\ \A i \in 1..Len(r) :
          IsSpace(r[i]) => r[i] = " " /\ ~IsSpace(r[i + 1])

\* C14: extract_text returns a string without whitespace at its ends in
\* which whitespace occurs only as single blanks; its tokens are the tokens
\* of the pages, in page order and unchanged, so that a page without text
\* adds nothing and the last token of a page and the first token of the
\* next are one blank apart; it is empty when no page has a token.
C14_TextNormalization ==
    op = "extract_text" =>
        LET r == call_result[1] IN
        /\ Normalized(r)
        /\ Tokens(r) = PageTokensFrom(1)
        /\ (\A k \in 1..Len(call_arg) : Tokens(PageText(k)) = <<>>)
              => r = <<>>

\* three pages were read: one without text and two in a row with text,
\* the first ending and the second starting with a token
C14_Witness ==
    /\ op = "extract_text"
    /\ Len(call_arg) >= 3
    /\ \E k \in 1..Len(call_arg) : PageText(k) = <<>>
    /\ \E k \in 1..(Len(call_arg) - 1) :
          /\ Len(PageText(k)) > 0 /\ ~IsSpace(PageText(k)[Len(PageText(k))])
          /\ Len(PageText(k + 1)) > 0 /\ ~IsSpace(PageText(k + 1)[1])
    /\ Len(Tokens(call_result[1])) >= 4

-----------------------------------------------------------------------------
(* Encoding profiles and artifacts *)

Low == "L"      \* low error-correction redundancy
High == "H"     \* high error-correction redundancy

Generated == Shown(showinfo(MsgGenerated))

\* the encoding of a payload under a profile, and its rendering
Encoding(payload, profile) ==
    [data |-> payload, error_correction |-> profile]

Rendering(image) == [photo_of |-> image]

\* C15: generate_qr hands its payload to the encoder at low and
\* generate_qr_from_url at high error correction, whatever was typed,
\* answered or done before; after a successful generation the workflow's
\* artifact is the encoding of the payload of that action at that profile,
\* so an artifact of the PDF workflow is always a low and one of the URL
\* workflow always a high encoding.
C15_ProfilePolicy ==
    /\ (op = "generate_qr" /\ encoded # None) =>
          encoded[1].error_correction = Low
    /\ (op = "generate_qr_from_url" /\ encoded # None) =>
          encoded[1].error_correction = High
    /\ (op = "generate_qr" /\ Generated) =>
          /\ encoded # None
          /\ qr_image
               = <<Encoding(IF google_drive_link = <<>> THEN extracted_text
                            ELSE extracted_text \o SuffixLiteral
                                    \o google_drive_link, Low)>>
          /\ qr_image = encoded
          /\ qr_photo = <<Rendering(qr_image[1])>>
    /\ (op = "generate_qr_from_url" /\ Generated) =>
          /\ encoded # None
          /\ url_qr_image = <<Encoding(encoded[1].data, High)>>
          /\ url_qr_image = encoded
          /\ url_qr_photo = <<Rendering(url_qr_image[1])>>
    /\ qr_image # None => qr_image[1].error_correction = Low
    /\ url_qr_image # None => url_qr_image[1].error_correction = High

\* a URL artifact was just generated while a PDF artifact with another
\* payload is held
C15_Witness ==
    /\ op = "generate_qr_from_url"
    /\ Generated
    /\ url_qr_image # None
    /\ qr_image # None
    /\ qr_image[1].error_correction = Low
    /\ url_qr_image[1].error_correction = High

-----------------------------------------------------------------------------
(* Clear and reset *)

\* the last handler did no more than show this warning
OnlyWarned(msg) ==
    /\ dialogs = <<showwarning(msg)>>
    /\ pages_read = <<>>
    /\ encoded = None
    /\ written = None

\* what clear_form leaves of the PDF workflow
PdfCleared ==
    /\ pdf_reader = None
    /\ total_pages = 0
    /\ extracted_text = <<>>
    /\ google_drive_link = <<>>
    /\ qr_image = None

ResetStep ==
    /\ (op = "clear_form")' => PdfCleared'
    /\ (op = "clear_url_input")' => (url_qr_image = None)'
    \* without a document generate_qr only warns
    /\ (pdf_reader = None /\ (op = "generate_qr")') =>
          OnlyWarned(MsgSelectPdf)' /\ UNCHANGED <<pdf_state, url_state>>
    \* without an artifact the save of the workflow only warns
    /\ (qr_image = None /\ (op = "save_qr")') =>
          OnlyWarned(MsgGenerateFirst)' /\ UNCHANGED <<pdf_state, url_state>>
    /\ (url_qr_image = None /\ (op = "save_url_qr_code")') =>
          OnlyWarned(MsgGenerateFirst)' /\ UNCHANGED <<pdf_state, url_state>>
    \* only a load that succeeds brings a document, and only a generation
    \* that succeeds brings an artifact
    /\ (pdf_reader = None /\ (pdf_reader # None)') =>
          (op = "browse_pdf" /\ Shown(showinfo(MsgLoaded)))'
    /\ (qr_image = None /\ (qr_image # None)') =>
          (op = "generate_qr" /\ Shown(showinfo(MsgGenerated)))'
    /\ (url_qr_image = None /\ (url_qr_image # None)') =>
          (op = "generate_qr_from_url" /\ Shown(showinfo(MsgGenerated)))'

\* C16: clear_form leaves no document, page count 0, no extracted text, no
\* stored link and no PDF artifact, and clear_url_input leaves no URL
\* artifact; as long as no document is loaded generate_qr only warns, and
\* as long as no generation has succeeded the save of the workflow only
\* warns: nothing is read, encoded or written and no field changes.
C16_ClearResets == [][ResetStep]_vars

\* clear_form has emptied the PDF workflow of a session that holds a URL
\* artifact
C16_Witness ==
    /\ op = "clear_form"
    /\ PdfCleared
    /\ url_qr_image # None

-----------------------------------------------------------------------------
(* Independence of the two workflows *)

PdfWorkflow == {"browse_pdf", "generate_qr", "save_qr", "clear_form"}

UrlWorkflow == {"generate_qr_from_url", "save_url_qr_code", "clear_url_input"}

IndependentStep ==
    /\ (op \in PdfWorkflow)' => UNCHANGED url_qr_image
    /\ (op \in UrlWorkflow)' =>
          UNCHANGED <<pdf_reader, total_pages, extracted_text,
                      google_drive_link, qr_image>>

\* C17: a file pick, generate_qr, save_qr or clear_form, whatever its
\* outcome, leaves the artifact of the URL workflow as it was, and
\* generate_qr_from_url, save_url_qr_code or clear_url_input leaves the
\* document handle, the page count, the extracted text, the stored link
\* and the artifact of the PDF workflow as they were.
C17_WorkflowsIndependent == [][IndependentStep]_vars

\* the URL workflow was cleared in a session that holds a document, its
\* text, a link and a PDF artifact
C17_Witness ==
    /\ op = "clear_url_input"
    /\ url_qr_image = None
    /\ pdf_reader # None
    /\ extracted_text # <<>>
    /\ google_drive_link # <<>>
    /\ qr_image # None
====
